---- MODULE Spec2Model ----
(***************************************************************************)
(* Model of the Ugaris Rust demo mod (src/src/lib.rs): a native extension  *)
(* the game client drives through fixed callbacks.  The extension's state  *)
(* is the two statics SHOW_OVERLAY and FRAME_COUNT; the host's state is    *)
(* the imported game statics.  Every callback is one action.  The host     *)
(* calls a callback makes are recorded, in order, in `calls`.              *)
(*                                                                         *)
(* Text is modelled as the bytes the host finds at the pointer it is       *)
(* given: a sequence of byte values, the terminating NUL included.         *)
(***************************************************************************)
EXTENDS Integers, Sequences, FiniteSets, TLC

(***************************************************************************)
(* Bounds of the model.                                                    *)
(***************************************************************************)
\* amod_frame calls explored from each starting counter value
MaxFrames == 3
\* "#overlay" commands explored
MaxOverlays == 3
\* callbacks in flight at once, where the host is taken to call concurrently
NThreads == 3

(***************************************************************************)
(* Program constants.                                                      *)
(***************************************************************************)
V_HP == 0
V_MANA == 2
\* a Strength index that is off by one (it lands on Agility)
V_STR_off_by_one == 6 - 1
V_STR == 6
V_AGI == 5
V_INT == 4
V_WIS == 3
V_MAX == 200
DOT_TL == 0
\* the byte cstr! and the format strings append
NUL == 0
\* length of the host's username buffer
USERNAME_LEN == 40
\* one 16-bit limb of a 32-bit value: FRAME_COUNT is kept as <<high, low>>
LIMB == 2 ^ 16

(***************************************************************************)
(* Byte-level helpers.                                                     *)
(***************************************************************************)
RECURSIVE BitOr(_, _, _)
\* bitwise OR of the low n bits of a and b
BitOr(a, b, n) ==
    IF n = 0 THEN 0
    ELSE (IF a % 2 = 1 \/ b % 2 = 1 THEN 1 ELSE 0)
         + 2 * BitOr(a \div 2, b \div 2, n - 1)

\* const fn irgb(r, g, b) -> u16 : (r << 10) | (g << 5) | b on 16 bits
irgb(r, g, b) ==
    BitOr(BitOr((r * 1024) % LIMB, (g * 32) % LIMB, 16), b % LIMB, 16)

\* cstr!(s): the literal with "\0" appended
cstr(s) == s \o <<NUL>>

RECURSIVE DecNat(_)
\* decimal digits of a natural number, as Display writes them
DecNat(n) ==
    IF n < 10 THEN <<48 + n>> ELSE DecNat(n \div 10) \o <<48 + (n % 10)>>

\* Display of a c_int
DecInt(n) == IF n < 0 THEN <<45>> \o DecNat(-n) ELSE DecNat(n)

\* a 32-bit value <<high, low>> divided by ten: <<quotient, remainder>>
DivTenU32(c) ==
    LET qh == c[1] \div 10
        m  == (c[1] % 10) * LIMB + c[2]
    IN  << <<qh, m \div 10>>, m % 10 >>

RECURSIVE DecU32(_)
\* Display of a u32 kept as <<high, low>>
DecU32(c) ==
    IF c[1] = 0 /\ c[2] < 10 THEN <<48 + c[2]>>
    ELSE LET d == DivTenU32(c) IN DecU32(d[1]) \o <<48 + d[2]>>

\* the bytes of the C string at mem: everything before the first NUL
RECURSIVE CStr_from_ptr(_)
CStr_from_ptr(mem) ==
    IF mem = <<>> \/ Head(mem) = NUL THEN <<>>
    ELSE <<Head(mem)>> \o CStr_from_ptr(Tail(mem))

(***************************************************************************)
(* UTF-8, as core::str validates it.                                       *)
(***************************************************************************)
InRange(b, lo, hi) == b >= lo /\ b <= hi

\* the byte at position i of s, or -1 past the end
ByteAt(s, i) == IF i <= Len(s) THEN s[i] ELSE -1

\* allowed range of the second byte after a given lead byte
SecondLo(first) == IF first = 224 THEN 160 ELSE IF first = 240 THEN 144 ELSE 128
SecondHi(first) == IF first = 237 THEN 159 ELSE IF first = 244 THEN 143 ELSE 191

\* width of the sequence a lead byte announces, 0 for a byte that cannot lead
Utf8Width(first) ==
    IF first < 128 THEN 1
    ELSE IF InRange(first, 194, 223) THEN 2
    ELSE IF InRange(first, 224, 239) THEN 3
    ELSE IF InRange(first, 240, 244) THEN 4
    ELSE 0

\* the character starting at position i of s: [ok, len], where for an
\* invalid sequence len is the length of the part to be replaced
Utf8At(s, i) ==
    LET first == s[i]
        w     == Utf8Width(first)
        b2ok  == InRange(ByteAt(s, i + 1), SecondLo(first), SecondHi(first))
        b3ok  == InRange(ByteAt(s, i + 2), 128, 191)
        b4ok  == InRange(ByteAt(s, i + 3), 128, 191)
    IN  IF w = 0 THEN [ok |-> FALSE, len |-> 1]
        ELSE IF w = 1 THEN [ok |-> TRUE, len |-> 1]
        ELSE IF ~b2ok THEN [ok |-> FALSE, len |-> 1]
        ELSE IF w = 2 THEN [ok |-> TRUE, len |-> 2]
        ELSE IF ~b3ok THEN [ok |-> FALSE, len |-> 2]
        ELSE IF w = 3 THEN [ok |-> TRUE, len |-> 3]
        ELSE IF ~b4ok THEN [ok |-> FALSE, len |-> 3]
        ELSE [ok |-> TRUE, len |-> 4]

RECURSIVE ValidUtf8From(_, _)
ValidUtf8From(s, i) ==
    IF i > Len(s) THEN TRUE
    ELSE LET c == Utf8At(s, i) IN c.ok /\ ValidUtf8From(s, i + c.len)

\* CStr::to_str: Ok(s) for valid UTF-8, Err otherwise
to_str(bytes) ==
    IF ValidUtf8From(bytes, 1) THEN [ok |-> TRUE, s |-> bytes]
    ELSE [ok |-> FALSE, s |-> <<>>]

RECURSIVE LossyFrom(_, _)
LossyFrom(s, i) ==
    IF i > Len(s) THEN <<>>
    ELSE LET c == Utf8At(s, i)
         IN  (IF c.ok THEN SubSeq(s, i, i + c.len - 1) ELSE <<239, 191, 189>>)
             \o LossyFrom(s, i + c.len)

\* CStr::to_string_lossy().into_owned(): invalid parts become U+FFFD
to_string_lossy(bytes) == LossyFrom(bytes, 1)

(***************************************************************************)
(* State.                                                                  *)
(***************************************************************************)
VARIABLES
    SHOW_OVERLAY,   \* static SHOW_OVERLAY: AtomicBool
    FRAME_COUNT,    \* static FRAME_COUNT: AtomicU32, as <<high limb, low limb>>
    hp, mana, gold, experience, value, username,          \* host game state
    whitecolor, textcolor, healthcolor, manacolor,        \* host colours
    last,           \* the callback the host called last ("load" before any)
    arg,            \* the buffer handed to amod_client_cmd, when last is that
    ret,            \* the c_int the last callback returned (0 for a void one)
    retbuf,         \* the text amod_version returned
    calls,          \* the host calls the last callback made, in order
    reads,          \* the host statics the last callback read
    frames,         \* amod_frame calls explored so far
    overlayHist,    \* one entry per "#overlay" command processed since load
    origin,         \* the two statics as they were where the exploration starts
    phase,          \* where the host is in its documented call sequence
    thr             \* the callbacks in flight, where the host calls concurrently

extvars  == <<SHOW_OVERLAY, FRAME_COUNT>>
hostvars == <<hp, mana, gold, experience, value, username,
              whitecolor, textcolor, healthcolor, manacolor>>
obsvars  == <<last, arg, ret, retbuf, calls, reads>>
vars     == <<extvars, hostvars, obsvars, frames, overlayHist, origin, phase, thr>>

(***************************************************************************)
(* The host: its statics and the answers of its services.                  *)
(***************************************************************************)
\* a username buffer: the name's bytes, then NUL up to USERNAME_LEN
NameBuf(name) == name \o [i \in 1..(USERNAME_LEN - Len(name)) |-> NUL]

\* a stat table value[2][V_MAX] with the given slot-0 maxima
StatTable(maxhp, maxmana, base) ==
    [s \in 0..1 |->
        [i \in 0..(V_MAX - 1) |->
            IF s = 1 THEN 900 + i
            ELSE IF i = 0 THEN maxhp
            ELSE IF i = 2 THEN maxmana
            ELSE base + i]]

\* the contents of the host statics the model explores
HostStates ==
    { [hp |-> 50, mana |-> 20, gold |-> 1000, experience |-> 500,
       value |-> StatTable(100, 40, 10),
       username |-> NameBuf(<<66, 111, 98>>),              \* "Bob"
       whitecolor |-> 32767, textcolor |-> 24311,
       healthcolor |-> 31744, manacolor |-> 31],
      [hp |-> -5, mana |-> 0, gold |-> 0, experience |-> 0,
       value |-> StatTable(0, 0, 0),
       username |-> NameBuf(<<>>),                         \* ""
       whitecolor |-> 32767, textcolor |-> 24311,
       healthcolor |-> 31744, manacolor |-> 31],
      [hp |-> 7, mana |-> 123, gold |-> 70000, experience |-> 12345,
       value |-> StatTable(9, 250, 30),
       username |-> NameBuf(<<90, 111, 235>>),             \* "Zo\xEB", Latin-1
       whitecolor |-> 65535, textcolor |-> 0,
       healthcolor |-> 1, manacolor |-> 2] }

\* answers of dotx(DOT_TL) and doty(DOT_TL): screen coordinates
AnchorXs == {0, 40}
AnchorYs == {0, 300}
\* status results of note, and the five widths render_text returns in a frame
NoteRets == {-1, 0}
TextRets == { <<0, 0, 0, 0, 0>>, <<78, 60, 72, 54, 48>>, <<78, -1, 72, 0, 48>> }
\* answers of exp2level
Levels == {1, 5}

\* FRAME_COUNT values the exploration starts from: load (0) and two values a
\* run of frames with the overlay hidden leads to, just before a carry into the
\* high limb and just before the wrap
StartCounts == { <<0, 0>>, <<0, LIMB - 1>>, <<LIMB - 1, LIMB - 1>> }

\* a non-null pointer to the given memory, and the null pointer
Ptr(mem) == [null |-> FALSE, mem |-> mem]
NullPtr  == [null |-> TRUE, mem |-> <<>>]
is_null(buf) == buf.null

\* the command buffers the host hands to amod_client_cmd
CmdBufs ==
    { NullPtr,
      Ptr(<<NUL>>),                                              \* ""
      Ptr(<<35, 104, 101, 108, 108, 111, NUL>>),                 \* "#hello"
      Ptr(<<35, 115, 116, 97, 116, 115, NUL>>),                  \* "#stats"
      Ptr(<<35, 111, 118, 101, 114, 108, 97, 121, NUL>>),        \* "#overlay"
      Ptr(<<35, 111, 118, 101, 114, 108, 97, 121, NUL, 120, NUL>>), \* "#overlay", then other memory
      Ptr(<<35, 72, 101, 108, 108, 111, NUL>>),                  \* "#Hello"
      Ptr(<<35, 83, 84, 65, 84, 83, NUL>>),                      \* "#STATS"
      Ptr(<<35, 104, 101, 108, 108, 111, 32, NUL>>),             \* "#hello "
      Ptr(<<35, 104, 101, 108, 108, NUL>>),                      \* "#hell"
      Ptr(<<104, 101, 108, 108, 111, NUL>>),                     \* "hello"
      Ptr(<<35, 111, 118, 101, 114, 108, 97, 121, 120, NUL>>),   \* "#overlayx"
      Ptr(<<35, 115, 116, 97, 116, 115, 195, 169, NUL>>),        \* "#stats" + e-acute (valid UTF-8)
      Ptr(<<35, 104, 101, 108, 108, 111, 255, NUL>>),            \* "#hello" + 0xFF
      Ptr(<<35, 115, 116, 97, 116, 115, 195, NUL>>),             \* "#stats" + a cut-off sequence
      Ptr(<<192, 128, NUL>>) }                                   \* overlong encoding

(***************************************************************************)
(* Host calls.  A call is recorded as the service's name, its integer      *)
(* arguments, the text buffers it is given, and the value it returned      *)
(* (0 for a service that returns nothing).                                 *)
(***************************************************************************)
Call(fn, ints, bufs, r) == [fn |-> fn, ints |-> ints, bufs |-> bufs, ret |-> r]

addline(text)  == Call("addline", <<>>, <<text>>, 0)
render_rect(sx, sy, ex, ey, color) ==
    Call("render_rect", <<sx, sy, ex, ey, color>>, <<>>, 0)
render_line(fx, fy, tx, ty, color) ==
    Call("render_line", <<fx, fy, tx, ty, color>>, <<>>, 0)
render_text(sx, sy, color, flags, text, r) ==
    Call("render_text", <<sx, sy, color, flags>>, <<text>>, r)

(***************************************************************************)
(* Extension state operations.                                             *)
(***************************************************************************)
\* fetch_add that saturates at u32::MAX instead of wrapping
fetch_add_saturating(c, n) ==
    IF c[2] + n >= LIMB /\ c[1] = LIMB - 1 THEN <<LIMB - 1, LIMB - 1>>
    ELSE << c[1] + ((c[2] + n) \div LIMB), (c[2] + n) % LIMB >>

\* AtomicU32::fetch_add(n): the new value, wrapping at 2^32
fetch_add(c, n) ==
    LET lo == c[2] + n
    IN  << (c[1] + (lo \div LIMB)) % LIMB, lo % LIMB >>

\* a command that switches the overlay on instead of toggling it
new_state_set(show) == TRUE

\* let new_state = !SHOW_OVERLAY.load(..)
new_state(show) == ~show

(***************************************************************************)
(* amod_frame: the overlay.                                                *)
(***************************************************************************)
\* "Rust Demo Mod"
title_text == cstr(<<82, 117, 115, 116, 32, 68, 101, 109, 111, 32, 77, 111, 100>>)

\* format!("HP: {} / {}\0", hp, value[0][V_HP])
frame_hp_text ==
    <<72, 80, 58, 32>> \o DecInt(hp) \o <<32, 47, 32>>
        \o DecInt(value[0][V_HP]) \o <<NUL>>

\* format!("Mana: {} / {}\0", mana, value[0][V_MANA])
frame_mana_text ==
    <<77, 97, 110, 97, 58, 32>> \o DecInt(mana) \o <<32, 47, 32>>
        \o DecInt(value[0][V_MANA]) \o <<NUL>>

\* format!("Gold: {}\0", gold)
gold_text == <<71, 111, 108, 100, 58, 32>> \o DecInt(gold) \o <<NUL>>

\* the 32-bit value before c
Pred32(c) ==
    IF c[2] > 0 THEN <<c[1], c[2] - 1>>
    ELSE << (c[1] + LIMB - 1) % LIMB, LIMB - 1 >>

\* a frame line that shows what fetch_add returned: the count before this frame
frame_text_previous(count) ==
    <<70, 114, 97, 109, 101, 58, 32>> \o DecU32(Pred32(count)) \o <<NUL>>

\* format!("Frame: {}\0", FRAME_COUNT.load(..))
frame_text(count) ==
    <<70, 114, 97, 109, 101, 58, 32>> \o DecU32(count) \o <<NUL>>

\* a panel whose right edge is drawn on the left one, leaving the outline open
PanelCalls_open(x, y, w, h) ==
    LET border_color == irgb(12, 12, 16)
    IN  << render_rect(x, y, x + w, y + h, irgb(4, 4, 6)),
           render_line(x, y, x + w, y, border_color),
           render_line(x, y + h, x + w, y + h, border_color),
           render_line(x, y, x, y + h, border_color),
           render_line(x, y, x, y + h, border_color) >>

\* the panel: background, then the border's four lines
PanelCalls(x, y, w, h) ==
    LET border_color == irgb(12, 12, 16)
    IN  << render_rect(x, y, x + w, y + h, irgb(4, 4, 6)),
           render_line(x, y, x + w, y, border_color),
           render_line(x, y + h, x + w, y + h, border_color),
           render_line(x, y, x, y + h, border_color),
           render_line(x + w, y, x + w, y + h, border_color) >>

\* the stat lines with HP and Mana drawn in the other order
TextCalls_swapped(x, y, count, rets) ==
    LET text_y == y + 20
    IN  << render_text(x + 4, y + 4, whitecolor, 0, title_text, rets[1]),
           render_text(x + 4, text_y, manacolor, 0, frame_mana_text, rets[2]),
           render_text(x + 4, text_y + 14, healthcolor, 0, frame_hp_text, rets[3]),
           render_text(x + 4, text_y + 14 + 14, irgb(31, 31, 0), 0, gold_text, rets[4]),
           render_text(x + 4, text_y + 14 + 14 + 14, textcolor, 0,
                       frame_text(count), rets[5]) >>

\* the title and the four stat lines; rets are render_text's five results
TextCalls(x, y, count, rets) ==
    LET text_y == y + 20
    IN  << render_text(x + 4, y + 4, whitecolor, 0, title_text, rets[1]),
           render_text(x + 4, text_y, healthcolor, 0, frame_hp_text, rets[2]),
           render_text(x + 4, text_y + 14, manacolor, 0, frame_mana_text, rets[3]),
           render_text(x + 4, text_y + 14 + 14, irgb(31, 31, 0), 0, gold_text, rets[4]),
           render_text(x + 4, text_y + 14 + 14 + 14, textcolor, 0,
                       frame_text(count), rets[5]) >>

\* a frame that resolves the anchor before it looks at the flag
FrameCalls_anchor_first(show, count, ax, ay, rets) ==
    << Call("dotx", <<DOT_TL>>, <<>>, ax), Call("doty", <<DOT_TL>>, <<>>, ay) >>
    \o (IF ~show THEN <<>>
        ELSE PanelCalls(ax + 10, ay + 10, 180, 80)
             \o TextCalls(ax + 10, ay + 10, count, rets))

\* a frame whose visibility check is inverted
FrameCalls_inverted(show, count, ax, ay, rets) ==
    IF show THEN <<>>
    ELSE << Call("dotx", <<DOT_TL>>, <<>>, ax), Call("doty", <<DOT_TL>>, <<>>, ay) >>
         \o PanelCalls(ax + 10, ay + 10, 180, 80)
         \o TextCalls(ax + 10, ay + 10, count, rets)

\* the host calls of one amod_frame with the flag `show`, the counter already
\* incremented to `count`, and the host answering ax, ay and rets
FrameCalls(show, count, ax, ay, rets) ==
    IF ~show THEN <<>>
    ELSE LET x == ax + 10
             y == ay + 10
         IN  << Call("dotx", <<DOT_TL>>, <<>>, ax),
                Call("doty", <<DOT_TL>>, <<>>, ay) >>
             \o PanelCalls(x, y, 180, 80)
             \o TextCalls(x, y, count, rets)

\* the host statics a frame reads
FrameReads(show) ==
    IF ~show THEN {}
    ELSE {"whitecolor", "hp", "value", "healthcolor", "mana", "manacolor",
          "gold", "textcolor"}

\* the answers the host gives during one frame: none are asked for when the
\* frame returns early
FrameAnswers(show) ==
    IF show THEN AnchorXs \X AnchorYs \X TextRets
    ELSE { <<0, 0, <<0, 0, 0, 0, 0>> >> }

amod_frame ==
    /\ frames < MaxFrames
    /\ \E ans \in FrameAnswers(SHOW_OVERLAY) :
        LET ax == ans[1]  ay == ans[2]  rets == ans[3] IN
          /\ FRAME_COUNT' = fetch_add(FRAME_COUNT, 1)
          /\ calls' = FrameCalls(SHOW_OVERLAY, FRAME_COUNT', ax, ay, rets)
    /\ reads' = FrameReads(SHOW_OVERLAY)
    /\ last' = "amod_frame"
    /\ arg' = NullPtr
    /\ ret' = 0
    /\ retbuf' = <<>>
    /\ frames' = frames + 1
    /\ UNCHANGED <<SHOW_OVERLAY, hostvars, overlayHist>>

(***************************************************************************)
(* amod_client_cmd: the command dispatcher.                                *)
(***************************************************************************)
\* the match patterns "#hello", "#stats", "#overlay"
CMD_HELLO   == <<35, 104, 101, 108, 108, 111>>
CMD_STATS   == <<35, 115, 116, 97, 116, 115>>
CMD_OVERLAY == <<35, 111, 118, 101, 114, 108, 97, 121>>

\* ASCII lower case of a byte string
Lower(t) == [i \in 1..Len(t) |-> IF InRange(t[i], 65, 90) THEN t[i] + 32 ELSE t[i]]

\* a match that ignores case
match_arm_nocase(cmd) ==
    IF Lower(cmd) = CMD_HELLO THEN "hello"
    ELSE IF Lower(cmd) = CMD_STATS THEN "stats"
    ELSE IF Lower(cmd) = CMD_OVERLAY THEN "overlay"
    ELSE "default"

\* match cmd { ... }: the arm a decoded command selects
match_arm(cmd) ==
    IF cmd = CMD_HELLO THEN "hello"
    ELSE IF cmd = CMD_STATS THEN "stats"
    ELSE IF cmd = CMD_OVERLAY THEN "overlay"
    ELSE "default"

\* the null check and the decoding in front of the match
cmd_arm(buf) ==
    IF is_null(buf) THEN "null"
    ELSE LET r == to_str(CStr_from_ptr(buf.mem))
         IN  IF ~r.ok THEN "err" ELSE match_arm(r.s)

\* a help block that lists "#overlay" before "#stats"
hello_calls_reordered ==
    << addline(cstr(<<61, 61, 61, 32, 82, 117, 115, 116, 32, 68, 101, 109, 111,
                      32, 77, 111, 100, 32, 67, 111, 109, 109, 97, 110, 100,
                      115, 32, 61, 61, 61>>)),
       addline(cstr(<<35, 104, 101, 108, 108, 111, 32, 32, 32, 45, 32, 83, 104,
                      111, 119, 32, 116, 104, 105, 115, 32, 104, 101, 108,
                      112>>)),
       addline(cstr(<<35, 111, 118, 101, 114, 108, 97, 121, 32, 45, 32, 84,
                      111, 103, 103, 108, 101, 32, 72, 85, 68, 32, 111, 118,
                      101, 114, 108, 97, 121>>)),
       addline(cstr(<<35, 115, 116, 97, 116, 115, 32, 32, 32, 45, 32, 68, 105,
                      115, 112, 108, 97, 121, 32, 99, 117, 114, 114, 101, 110,
                      116, 32, 115, 116, 97, 116, 115>>)) >>

\* the "#hello" arm: the help block
hello_calls ==
    << \* "=== Rust Demo Mod Commands ==="
       addline(cstr(<<61, 61, 61, 32, 82, 117, 115, 116, 32, 68, 101, 109, 111,
                      32, 77, 111, 100, 32, 67, 111, 109, 109, 97, 110, 100,
                      115, 32, 61, 61, 61>>)),
       \* "#hello   - Show this help"
       addline(cstr(<<35, 104, 101, 108, 108, 111, 32, 32, 32, 45, 32, 83, 104,
                      111, 119, 32, 116, 104, 105, 115, 32, 104, 101, 108,
                      112>>)),
       \* "#stats   - Display current stats"
       addline(cstr(<<35, 115, 116, 97, 116, 115, 32, 32, 32, 45, 32, 68, 105,
                      115, 112, 108, 97, 121, 32, 99, 117, 114, 114, 101, 110,
                      116, 32, 115, 116, 97, 116, 115>>)),
       \* "#overlay - Toggle HUD overlay"
       addline(cstr(<<35, 111, 118, 101, 114, 108, 97, 121, 32, 45, 32, 84,
                      111, 103, 103, 108, 101, 32, 72, 85, 68, 32, 111, 118,
                      101, 114, 108, 97, 121>>)) >>

\* "=== Player Stats (from Rust) ==="
stats_header ==
    cstr(<<61, 61, 61, 32, 80, 108, 97, 121, 101, 114, 32, 83, 116, 97, 116,
           115, 32, 40, 102, 114, 111, 109, 32, 82, 117, 115, 116, 41, 32, 61,
           61, 61>>)

\* format!("Level: {}  Experience: {}\0", level, experience)
level_text(level) ==
    <<76, 101, 118, 101, 108, 58, 32>> \o DecInt(level)
        \o <<32, 32, 69, 120, 112, 101, 114, 105, 101, 110, 99, 101, 58, 32>>
        \o DecInt(experience) \o <<NUL>>

\* format!("HP: {}/{}  Mana: {}/{}\0", hp, value[0][V_HP], mana, value[0][V_MANA])
stats_hp_text ==
    <<72, 80, 58, 32>> \o DecInt(hp) \o <<47>> \o DecInt(value[0][V_HP])
        \o <<32, 32, 77, 97, 110, 97, 58, 32>> \o DecInt(mana) \o <<47>>
        \o DecInt(value[0][V_MANA]) \o <<NUL>>

\* format!("STR: {}  AGI: {}  INT: {}  WIS: {}\0", value[0][V_STR], ...)
stats_text ==
    <<83, 84, 82, 58, 32>> \o DecInt(value[0][V_STR])
        \o <<32, 32, 65, 71, 73, 58, 32>> \o DecInt(value[0][V_AGI])
        \o <<32, 32, 73, 78, 84, 58, 32>> \o DecInt(value[0][V_INT])
        \o <<32, 32, 87, 73, 83, 58, 32>> \o DecInt(value[0][V_WIS]) \o <<NUL>>

\* a "#stats" arm that leaves the attribute line out
stats_calls_no_attributes(level) ==
    << Call("exp2level", <<experience>>, <<>>, level),
       addline(stats_header),
       addline(level_text(level)),
       addline(stats_hp_text),
       addline(gold_text) >>

\* the "#stats" arm, the host answering exp2level(experience) with level
stats_calls(level) ==
    << Call("exp2level", <<experience>>, <<>>, level),
       addline(stats_header),
       addline(level_text(level)),
       addline(stats_hp_text),
       addline(stats_text),
       addline(gold_text) >>

\* "Overlay: ON" and "Overlay: OFF"
OVERLAY_ON  == cstr(<<79, 118, 101, 114, 108, 97, 121, 58, 32, 79, 78>>)
OVERLAY_OFF == cstr(<<79, 118, 101, 114, 108, 97, 121, 58, 32, 79, 70, 70>>)

\* a confirmation that reports the state before the toggle
overlay_line_stale(state) == IF state THEN OVERLAY_OFF ELSE OVERLAY_ON

\* the line the "#overlay" arm emits for the state it has stored
overlay_line(state) == IF state THEN OVERLAY_ON ELSE OVERLAY_OFF

\* a dispatcher that answers what it does not handle with a line
unhandled_calls_reply ==
    << addline(cstr(<<85, 110, 107, 110, 111, 119, 110>>)) >>       \* "Unknown"

\* the default arm (and the two early returns) do nothing
unhandled_calls == <<>>

\* the value amod_client_cmd returns from each arm
cmd_ret(arm) == IF arm \in {"hello", "stats", "overlay"} THEN 1 ELSE 0

\* the host statics each arm reads
cmd_reads(arm) ==
    IF arm = "stats" THEN {"experience", "hp", "value", "mana", "gold"} ELSE {}

amod_client_cmd ==
    \E buf \in CmdBufs :
      \E level \in (IF cmd_arm(buf) = "stats" THEN Levels ELSE {0}) :
        LET arm == cmd_arm(buf)
        IN  /\ arm = "overlay" => Len(overlayHist) < MaxOverlays
            /\ last' = "amod_client_cmd"
            /\ arg' = buf
            /\ ret' = cmd_ret(arm)
            /\ retbuf' = <<>>
            /\ reads' = cmd_reads(arm)
            /\ IF arm = "overlay"
               THEN /\ SHOW_OVERLAY' = new_state(SHOW_OVERLAY)
                    /\ calls' = << addline(overlay_line(SHOW_OVERLAY')) >>
                    /\ overlayHist' = Append(overlayHist,
                                             [before |-> SHOW_OVERLAY,
                                              after  |-> SHOW_OVERLAY',
                                              calls  |-> calls'])
               ELSE /\ calls' = CASE arm = "hello" -> hello_calls
                                  [] arm = "stats" -> stats_calls(level)
                                  [] OTHER -> unhandled_calls
                    /\ UNCHANGED <<SHOW_OVERLAY, overlayHist>>
            /\ UNCHANGED <<FRAME_COUNT, hostvars, frames>>

(***************************************************************************)
(* The other callbacks.                                                    *)
(***************************************************************************)
\* what a callback that touches nothing leaves behind
Quiet(name, r) ==
    /\ last' = name
    /\ arg' = NullPtr
    /\ ret' = r
    /\ retbuf' = <<>>
    /\ calls' = <<>>
    /\ reads' = {}
    /\ UNCHANGED <<extvars, hostvars, frames, overlayHist>>

\* "Rust Demo Mod 1.0.0"
version_text ==
    cstr(<<82, 117, 115, 116, 32, 68, 101, 109, 111, 32, 77, 111, 100, 32, 49,
           46, 48, 46, 48>>)

amod_version ==
    /\ last' = "amod_version"
    /\ retbuf' = version_text
    /\ arg' = NullPtr
    /\ ret' = 0
    /\ calls' = <<>>
    /\ reads' = {}
    /\ UNCHANGED <<extvars, hostvars, frames, overlayHist>>

\* "Rust Demo Mod initializing..."
init_text ==
    cstr(<<82, 117, 115, 116, 32, 68, 101, 109, 111, 32, 77, 111, 100, 32, 105,
           110, 105, 116, 105, 97, 108, 105, 122, 105, 110, 103, 46, 46, 46>>)

\* "Rust Demo Mod shutting down."
exit_text ==
    cstr(<<82, 117, 115, 116, 32, 68, 101, 109, 111, 32, 77, 111, 100, 32, 115,
           104, 117, 116, 116, 105, 110, 103, 32, 100, 111, 119, 110, 46>>)

\* a logging callback that tries once more when note reports a failure
NoteOnly_retry(name, text) ==
    /\ \E r \in NoteRets :
          calls' = IF r < 0
                   THEN << Call("note", <<>>, <<text>>, r),
                           Call("note", <<>>, <<text>>, 0) >>
                   ELSE << Call("note", <<>>, <<text>>, r) >>
    /\ last' = name
    /\ arg' = NullPtr
    /\ ret' = 0
    /\ retbuf' = <<>>
    /\ reads' = {}
    /\ UNCHANGED <<extvars, hostvars, frames, overlayHist>>

\* a callback that only logs one fixed note
NoteOnly(name, text) ==
    /\ \E r \in NoteRets : calls' = << Call("note", <<>>, <<text>>, r) >>
    /\ last' = name
    /\ arg' = NullPtr
    /\ ret' = 0
    /\ retbuf' = <<>>
    /\ reads' = {}
    /\ UNCHANGED <<extvars, hostvars, frames, overlayHist>>

\* an init that greets the player by name, reading username before the game
\* state is there
amod_init_greets ==
    /\ \E r \in NoteRets :
          calls' = << Call("note", <<>>,
                           <<init_text, cstr(to_string_lossy(CStr_from_ptr(username)))>>, r) >>
    /\ last' = "amod_init"
    /\ arg' = NullPtr
    /\ ret' = 0
    /\ retbuf' = <<>>
    /\ reads' = {"username"}
    /\ UNCHANGED <<extvars, hostvars, frames, overlayHist>>

amod_init == NoteOnly("amod_init", init_text)

amod_exit == NoteOnly("amod_exit", exit_text)

\* fn get_username() -> String
get_username == to_string_lossy(CStr_from_ptr(username))

\* "Rust Demo Mod: Game started! Welcome, %s"
gamestart_fmt ==
    cstr(<<82, 117, 115, 116, 32, 68, 101, 109, 111, 32, 77, 111, 100, 58, 32,
           71, 97, 109, 101, 32, 115, 116, 97, 114, 116, 101, 100, 33, 32, 87,
           101, 108, 99, 111, 109, 101, 44, 32, 37, 115>>)

\* "Rust Demo Mod loaded. Type #hello for commands."
loaded_text ==
    cstr(<<82, 117, 115, 116, 32, 68, 101, 109, 111, 32, 77, 111, 100, 32, 108,
           111, 97, 100, 101, 100, 46, 32, 84, 121, 112, 101, 32, 35, 104, 101,
           108, 108, 111, 32, 102, 111, 114, 32, 99, 111, 109, 109, 97, 110,
           100, 115, 46>>)

\* What the host finds after the last byte of a String handed over by
\* as_ptr(): the String stores no terminator, so this is whatever memory
\* follows the allocation - a NUL at once, other bytes and then a NUL, or
\* no NUL in readable memory at all.
HeapTails == { <<NUL>>, <<33, 7, NUL>>, <<>> }

\* name.as_ptr() as the host reads it
name_as_ptr(name, tail) == name \o tail

\* a gamestart that starts the frame count afresh
amod_gamestart_resets ==
    /\ \E tail \in HeapTails, r \in NoteRets :
          calls' = << Call("note", <<>>,
                           <<gamestart_fmt, name_as_ptr(get_username, tail)>>, r),
                      addline(loaded_text) >>
    /\ last' = "amod_gamestart"
    /\ arg' = NullPtr
    /\ ret' = 0
    /\ retbuf' = <<>>
    /\ reads' = {"username"}
    /\ FRAME_COUNT' = <<0, 0>>
    /\ UNCHANGED <<SHOW_OVERLAY, hostvars, frames, overlayHist>>

amod_gamestart ==
    /\ \E tail \in HeapTails, r \in NoteRets :
          calls' = << Call("note", <<>>,
                           <<gamestart_fmt, name_as_ptr(get_username, tail)>>, r),
                      addline(loaded_text) >>
    /\ last' = "amod_gamestart"
    /\ arg' = NullPtr
    /\ ret' = 0
    /\ retbuf' = <<>>
    /\ reads' = {"username"}
    /\ UNCHANGED <<extvars, hostvars, frames, overlayHist>>

amod_tick == Quiet("amod_tick", 0)

\* coordinates, buttons and keys the host passes to the input hooks
Coords == {0, 799}
Buttons == {1, 2}
Keys == {13, 65}

amod_mouse_move == \E x \in Coords, y \in Coords : Quiet("amod_mouse_move", 0)

amod_mouse_click ==
    \E x \in Coords, y \in Coords, what \in Buttons : Quiet("amod_mouse_click", 0)

\* a key hook that swallows the Enter key
amod_keydown_consuming ==
    \E key \in Keys : Quiet("amod_keydown", IF key = 13 THEN 1 ELSE 0)

amod_keydown == \E key \in Keys : Quiet("amod_keydown", 0)

amod_keyup == \E key \in Keys : Quiet("amod_keyup", 0)

(***************************************************************************)
(* The host changes its statics between callbacks.                         *)
(***************************************************************************)
SetHost(h) ==
    /\ hp = h.hp /\ mana = h.mana /\ gold = h.gold
    /\ experience = h.experience /\ value = h.value /\ username = h.username
    /\ whitecolor = h.whitecolor /\ textcolor = h.textcolor
    /\ healthcolor = h.healthcolor /\ manacolor = h.manacolor

host_update ==
    /\ \E h \in HostStates :
          /\ hp' = h.hp /\ mana' = h.mana /\ gold' = h.gold
          /\ experience' = h.experience /\ value' = h.value
          /\ username' = h.username
          /\ whitecolor' = h.whitecolor /\ textcolor' = h.textcolor
          /\ healthcolor' = h.healthcolor /\ manacolor' = h.manacolor
    /\ last' = "host"
    /\ arg' = NullPtr
    /\ ret' = 0
    /\ retbuf' = <<>>
    /\ calls' = <<>>
    /\ reads' = {}
    /\ UNCHANGED <<extvars, frames, overlayHist>>

(***************************************************************************)
(* Callbacks in flight under a host that calls concurrently: each thread   *)
(* runs one callback, one access to the shared statics at a time.          *)
(***************************************************************************)
Threads == 1..NThreads

\* a thread that has not entered a callback
IdleThread ==
    [task |-> "none", pc |-> "idle", local |-> FALSE, calls |-> <<>>, ret |-> 0,
     raced |-> FALSE]

\* what a step of one thread leaves alone besides the two statics
conc_frame == <<hostvars, obsvars, frames, overlayHist, origin, phase>>

\* the thread's record after a step
Step(t, r) == thr' = [thr EXCEPT ![t] = r]

\* the host enters amod_frame on thread t
enter_frame(t) ==
    /\ thr[t].pc = "idle"
    /\ Step(t, [thr[t] EXCEPT !.task = "frame", !.pc = "inc"])
    /\ UNCHANGED <<extvars, conc_frame>>

\* an increment written back from a count loaded before the other callbacks
\* ran: a load and a store in place of the one fetch_add
frame_inc_stale(t) ==
    /\ thr[t].pc = "inc"
    /\ FRAME_COUNT' = fetch_add(origin.count, 1)
    /\ Step(t, [thr[t] EXCEPT !.pc = "check"])
    /\ UNCHANGED <<SHOW_OVERLAY, conc_frame>>

\* FRAME_COUNT.fetch_add(1, Ordering::Relaxed): one atomic step
frame_inc(t) ==
    /\ thr[t].pc = "inc"
    /\ FRAME_COUNT' = fetch_add(FRAME_COUNT, 1)
    /\ Step(t, [thr[t] EXCEPT !.pc = "check"])
    /\ UNCHANGED <<SHOW_OVERLAY, conc_frame>>

\* if !SHOW_OVERLAY.load(Ordering::Relaxed) { return; }
frame_check(t) ==
    /\ thr[t].pc = "check"
    /\ Step(t, [thr[t] EXCEPT !.local = SHOW_OVERLAY,
                              !.pc = IF SHOW_OVERLAY THEN "draw" ELSE "done"])
    /\ UNCHANGED <<extvars, conc_frame>>

\* the drawing, with FRAME_COUNT.load(..) for the frame line; the host's
\* answers touch no shared state and are held fixed here
frame_draw(t) ==
    /\ thr[t].pc = "draw"
    /\ Step(t, [thr[t] EXCEPT
                  !.calls = FrameCalls(thr[t].local, FRAME_COUNT, 0, 0,
                                       <<0, 0, 0, 0, 0>>),
                  !.pc = "done"])
    /\ UNCHANGED <<extvars, conc_frame>>

\* the host enters amod_client_cmd("#overlay") on thread t
enter_overlay(t) ==
    /\ thr[t].pc = "idle"
    /\ cmd_arm(Ptr(cstr(CMD_OVERLAY))) = "overlay"
    /\ Step(t, [thr[t] EXCEPT !.task = "overlay", !.pc = "load"])
    /\ UNCHANGED <<extvars, conc_frame>>

\* the threads that have loaded the flag and not yet stored it
MidToggle == {u \in Threads : thr[u].task = "overlay" /\ thr[u].pc = "store"}

\* let new_state = !SHOW_OVERLAY.load(Ordering::Relaxed); `raced` notes that
\* another "#overlay" was between its load and its store at that moment
overlay_load(t) ==
    /\ thr[t].pc = "load"
    /\ thr' = [u \in Threads |->
                 IF u = t
                 THEN [thr[t] EXCEPT !.local = new_state(SHOW_OVERLAY),
                                     !.pc = "store",
                                     !.raced = (MidToggle # {})]
                 ELSE IF u \in MidToggle THEN [thr[u] EXCEPT !.raced = TRUE]
                 ELSE thr[u]]
    /\ UNCHANGED <<extvars, conc_frame>>

\* SHOW_OVERLAY.store(new_state, ..), the confirmation line, and return 1
overlay_store(t) ==
    /\ thr[t].pc = "store"
    /\ SHOW_OVERLAY' = thr[t].local
    /\ Step(t, [thr[t] EXCEPT !.calls = << addline(overlay_line(thr[t].local)) >>,
                              !.ret = cmd_ret("overlay"),
                              !.pc = "done"])
    /\ UNCHANGED <<FRAME_COUNT, conc_frame>>

(***************************************************************************)
(* The specification.                                                      *)
(***************************************************************************)
Init ==
    /\ SHOW_OVERLAY = FALSE
    /\ FRAME_COUNT \in StartCounts
    /\ \E h \in HostStates : SetHost(h)
    /\ last = "load"
    /\ arg = NullPtr
    /\ ret = 0
    /\ retbuf = <<>>
    /\ calls = <<>>
    /\ reads = {}
    /\ frames = 0
    /\ overlayHist = <<>>
    /\ origin = [show |-> SHOW_OVERLAY, count |-> FRAME_COUNT]
    /\ phase = "load"
    /\ thr = [t \in Threads |-> IdleThread]

\* The host calls one callback at a time, in any order.
AnyOrder(callback) ==
    callback /\ UNCHANGED <<origin, phase, thr>>

Next ==
    \/ AnyOrder(amod_version)
    \/ AnyOrder(amod_init)
    \/ AnyOrder(amod_exit)
    \/ AnyOrder(amod_gamestart)
    \/ AnyOrder(amod_tick)
    \/ AnyOrder(amod_frame)
    \/ AnyOrder(amod_mouse_move)
    \/ AnyOrder(amod_mouse_click)
    \/ AnyOrder(amod_keydown)
    \/ AnyOrder(amod_keyup)
    \/ AnyOrder(amod_client_cmd)
    \/ AnyOrder(host_update)

Spec == Init /\ [][Next]_vars

(***************************************************************************)
(* The host keeping to its documented call sequence: version, init,        *)
(* gamestart, then tick / frame / input / command repeated, then shutdown. *)
(* amod_version may be asked for at any time before shutdown.              *)
(***************************************************************************)
Allowed(ph, name) ==
    CASE name = "amod_version"   -> ph # "exit"
      [] name = "amod_init"      -> ph = "load"
      [] name = "amod_gamestart" -> ph = "init"
      [] name = "amod_exit"      -> ph \in {"init", "game"}
      [] name = "host"           -> TRUE
      [] OTHER                   -> ph = "game"

PhaseAfter(ph, name) ==
    CASE name = "amod_init"      -> "init"
      [] name = "amod_gamestart" -> "game"
      [] name = "amod_exit"      -> "exit"
      [] OTHER                   -> ph

\* The host calls one callback at a time, in the documented order.
InOrder(callback) ==
    /\ callback
    /\ Allowed(phase, last')
    /\ phase' = PhaseAfter(phase, last')
    /\ UNCHANGED <<origin, thr>>

SeqNext ==
    \/ InOrder(amod_version)
    \/ InOrder(amod_init)
    \/ InOrder(amod_exit)
    \/ InOrder(amod_gamestart)
    \/ InOrder(amod_tick)
    \/ InOrder(amod_frame)
    \/ InOrder(amod_mouse_move)
    \/ InOrder(amod_mouse_click)
    \/ InOrder(amod_keydown)
    \/ InOrder(amod_keyup)
    \/ InOrder(amod_client_cmd)
    \/ InOrder(host_update)

SpecSeq == Init /\ [][SeqNext]_vars

(***************************************************************************)
(* A host that calls concurrently: amod_frame and "#overlay" callbacks in  *)
(* flight on several threads, interleaved at every access to the statics.  *)
(* It starts from either value of the flag and any of the start counts.    *)
(***************************************************************************)
InitConc ==
    /\ SHOW_OVERLAY \in BOOLEAN
    /\ FRAME_COUNT \in StartCounts
    /\ SetHost(CHOOSE h \in HostStates : h.hp = 50)
    /\ last = "load"
    /\ arg = NullPtr
    /\ ret = 0
    /\ retbuf = <<>>
    /\ calls = <<>>
    /\ reads = {}
    /\ frames = 0
    /\ overlayHist = <<>>
    /\ origin = [show |-> SHOW_OVERLAY, count |-> FRAME_COUNT]
    /\ phase = "game"
    /\ thr = [t \in Threads |-> IdleThread]

ConcNext ==
    \E t \in Threads :
        \/ enter_frame(t)
        \/ frame_inc(t)
        \/ frame_check(t)
        \/ frame_draw(t)
        \/ enter_overlay(t)
        \/ overlay_load(t)
        \/ overlay_store(t)

SpecConc == InitConc /\ [][ConcNext]_vars

(***************************************************************************)
(* Vocabulary of the properties: what the host observes.                   *)
(***************************************************************************)
\* the text the host reads at a pointer: the bytes in front of the first NUL
TextOf(mem) ==
    LET nul == CHOOSE i \in 1..Len(mem) :
                   mem[i] = 0 /\ \A j \in 1..(i - 1) : mem[j] # 0
    IN  SubSeq(mem, 1, nul - 1)

\* whether the memory holds a NUL at all
Terminated(mem) == \E i \in 1..Len(mem) : mem[i] = 0

StartsWith(t, prefix) ==
    Len(t) >= Len(prefix) /\ SubSeq(t, 1, Len(prefix)) = prefix

\* the names of the services called, in order
FnNames(cs) == [i \in 1..Len(cs) |-> cs[i].fn]

IsAddline(c) == c.fn = "addline"
IsDrawing(c) == c.fn \in {"render_rect", "render_line", "render_text"}

\* the lines addline received, as text
LinesOf(cs) ==
    LET ls == SelectSeq(cs, IsAddline)
    IN  [i \in 1..Len(ls) |-> TextOf(ls[i].bufs[1])]

\* the drawing calls among the calls
DrawingsOf(cs) == SelectSeq(cs, IsDrawing)

\* the command names and the lines as the documentation spells them
Txt_hello   == <<35, 104, 101, 108, 108, 111>>                 \* "#hello"
Txt_stats   == <<35, 115, 116, 97, 116, 115>>                  \* "#stats"
Txt_overlay == <<35, 111, 118, 101, 114, 108, 97, 121>>        \* "#overlay"
Txt_on      == <<79, 118, 101, 114, 108, 97, 121, 58, 32, 79, 78>>       \* "Overlay: ON"
Txt_off     == <<79, 118, 101, 114, 108, 97, 121, 58, 32, 79, 70, 70>>   \* "Overlay: OFF"
\* "=== Rust Demo Mod Commands ==="
Txt_help_header ==
    <<61, 61, 61, 32, 82, 117, 115, 116, 32, 68, 101, 109, 111, 32, 77, 111,
      100, 32, 67, 111, 109, 109, 97, 110, 100, 115, 32, 61, 61, 61>>
\* "=== Player Stats (from Rust) ==="
Txt_stats_header ==
    <<61, 61, 61, 32, 80, 108, 97, 121, 101, 114, 32, 83, 116, 97, 116, 115,
      32, 40, 102, 114, 111, 109, 32, 82, 117, 115, 116, 41, 32, 61, 61, 61>>
Txt_title   == <<82, 117, 115, 116, 32, 68, 101, 109, 111, 32, 77, 111, 100>>  \* "Rust Demo Mod"
Txt_Level   == <<76, 101, 118, 101, 108, 58, 32>>              \* "Level: "
Txt_HP      == <<72, 80, 58, 32>>                              \* "HP: "
Txt_Mana    == <<77, 97, 110, 97, 58, 32>>                     \* "Mana: "
Txt_STR     == <<83, 84, 82, 58, 32>>                          \* "STR: "
Txt_Gold    == <<71, 111, 108, 100, 58, 32>>                   \* "Gold: "
Txt_Frame   == <<70, 114, 97, 109, 101, 58, 32>>               \* "Frame: "

\* the last callback was amod_client_cmd with the given command text
WasCmd(text) ==
    /\ last = "amod_client_cmd"
    /\ ~arg.null
    /\ Terminated(arg.mem)
    /\ TextOf(arg.mem) = text

\* the ten drawing calls of a visible frame, in their order
TenDrawNames ==
    << "render_rect", "render_line", "render_line", "render_line",
       "render_line", "render_text", "render_text", "render_text",
       "render_text", "render_text" >>

\* the calls hold the full draw sequence: one rectangle, four lines, and the
\* five texts title, HP, Mana, Gold, Frame
FullDraw(cs) ==
    LET d == DrawingsOf(cs)
    IN  /\ FnNames(d) = TenDrawNames
        /\ TextOf(d[6].bufs[1]) = Txt_title
        /\ StartsWith(TextOf(d[7].bufs[1]), Txt_HP)
        /\ StartsWith(TextOf(d[8].bufs[1]), Txt_Mana)
        /\ StartsWith(TextOf(d[9].bufs[1]), Txt_Gold)
        /\ StartsWith(TextOf(d[10].bufs[1]), Txt_Frame)

\* the successor of a 32-bit value <<high, low>> modulo 2^32
Succ32(c) ==
    IF c = <<LIMB - 1, LIMB - 1>> THEN <<0, 0>>
    ELSE IF c[2] < LIMB - 1 THEN <<c[1], c[2] + 1>>
    ELSE <<c[1] + 1, 0>>

(***************************************************************************)
(* Properties.                                                             *)
(***************************************************************************)

\* C1: amod_client_cmd returns 1 if and only if the command text is exactly
\* "#hello", "#stats" or "#overlay"; for every other input (null pointer,
\* empty text, undecodable bytes, a near miss, a name with extra characters)
\* it returns 0.
C1_ConsumedIffSupported ==
    last = "amod_client_cmd" =>
        /\ ret \in {0, 1}
        /\ ret = 1 <=> /\ ~arg.null
                       /\ TextOf(arg.mem) \in {Txt_hello, Txt_stats, Txt_overlay}

\* C1 witness: "#stats" was consumed while the overlay was visible, and a
\* near miss in the same kind of state is covered by the inputs explored.
C1_Witness ==
    /\ WasCmd(Txt_stats)
    /\ ret = 1
    /\ SHOW_OVERLAY
    /\ frames > 0

\* C2: of any two consecutive "#overlay" commands (whatever other callbacks
\* ran in between) the second leaves the flag at the value it had before the
\* first, and each emits exactly one confirmation line: ON then OFF when
\* the first started from Hidden, OFF then ON when it started from Visible.
C2_DoubleToggle ==
    \A i \in 1..(Len(overlayHist) - 1) :
        LET a == overlayHist[i]
            b == overlayHist[i + 1]
        IN  /\ b.after = a.before
            /\ LinesOf(a.calls) = << IF a.before THEN Txt_off ELSE Txt_on >>
            /\ LinesOf(b.calls) = << IF a.before THEN Txt_on ELSE Txt_off >>

\* C2 witness: three "#overlay" commands were processed, so a pair starting
\* from Hidden and a pair starting from Visible have both happened, with
\* frames in between.
C2_Witness ==
    /\ Len(overlayHist) = 3
    /\ ~overlayHist[1].before
    /\ overlayHist[2].before
    /\ frames > 0

\* C3: every amod_frame call replaces the frame counter by its successor
\* modulo 2^32 (c+1 below the maximum, 0 from the maximum), whether the
\* overlay is hidden or visible, and returns normally.
C3_FrameCounts ==
    [][last' = "amod_frame" =>
          /\ FRAME_COUNT' = Succ32(FRAME_COUNT)
          /\ ret' = 0]_vars

\* C3 witness: a frame with the overlay visible wrapped the counter to 0.
C3_Witness ==
    /\ last = "amod_frame"
    /\ FRAME_COUNT = <<0, 0>>
    /\ frames > 0
    /\ SHOW_OVERLAY

\* C4: an amod_frame called while the flag is false makes no host call at
\* all.
C4_HiddenFrameSilent ==
    [][(last' = "amod_frame" /\ ~SHOW_OVERLAY) => calls' = <<>>]_vars

\* C4 witness: a frame ran hidden after the overlay had been switched on and
\* off again.
C4_Witness ==
    /\ last = "amod_frame"
    /\ ~SHOW_OVERLAY
    /\ Len(overlayHist) = 2
    /\ calls = <<>>

\* C5: an amod_frame called while the flag is true issues exactly the ten
\* drawing calls rect, line x 4, text x 5 (title, HP, Mana, Gold, Frame) in
\* that order, whatever the host statics and the counter hold.
C5_VisibleFrameDraws ==
    [][(last' = "amod_frame" /\ SHOW_OVERLAY) => FullDraw(calls')]_vars

\* C5 witness: a visible frame drew with a negative hp, right after the
\* counter wrapped.
C5_Witness ==
    /\ last = "amod_frame"
    /\ SHOW_OVERLAY
    /\ hp < 0
    /\ FRAME_COUNT = <<0, 0>>
    /\ Len(DrawingsOf(calls)) = 10

\* C6 as stated: "#stats" makes addline receive exactly four lines.
C6_StatsFourLines ==
    WasCmd(Txt_stats) => Len(LinesOf(calls)) = 4

\* C6 as amended: "#stats" makes addline receive exactly five lines: the
\* header "=== Player Stats (from Rust) ===", then level/experience,
\* HP/Mana, the four core attributes, and gold.
C6_StatsFiveLines ==
    WasCmd(Txt_stats) =>
        LET ls == LinesOf(calls)
        IN  /\ Len(ls) = 5
            /\ ls[1] = Txt_stats_header
            /\ StartsWith(ls[2], Txt_Level)
            /\ StartsWith(ls[3], Txt_HP)
            /\ StartsWith(ls[4], Txt_STR)
            /\ StartsWith(ls[5], Txt_Gold)

\* C6 witness: "#stats" ran on the snapshot of the documented scenario
\* (hp 50, experience 500, level 5).
C6_Witness ==
    /\ WasCmd(Txt_stats)
    /\ hp = 50
    /\ experience = 500
    /\ Len(LinesOf(calls)) = 5
    /\ LinesOf(calls)[2] =
          <<76, 101, 118, 101, 108, 58, 32, 53, 32, 32, 69, 120, 112, 101, 114,
            105, 101, 110, 99, 101, 58, 32, 53, 48, 48>>  \* "Level: 5  Experience: 500"

\* C7: "#hello" returns 1, makes addline receive exactly four lines - the
\* header, then the usage lines of #hello, #stats, #overlay in that order -
\* makes no other host call, and changes neither the flag nor the counter.
C7_Hello ==
    [][WasCmd(Txt_hello)' =>
          /\ ret' = 1
          /\ Len(calls') = 4
          /\ Len(LinesOf(calls')) = 4
          /\ LinesOf(calls')[1] = Txt_help_header
          /\ StartsWith(LinesOf(calls')[2], Txt_hello)
          /\ StartsWith(LinesOf(calls')[3], Txt_stats)
          /\ StartsWith(LinesOf(calls')[4], Txt_overlay)
          /\ UNCHANGED <<SHOW_OVERLAY, FRAME_COUNT>>]_vars

\* C7 witness: "#hello" ran while the overlay was visible and frames had
\* been counted.
C7_Witness ==
    /\ WasCmd(Txt_hello)
    /\ ret = 1
    /\ SHOW_OVERLAY
    /\ frames > 0
    /\ Len(calls) = 4

\* C8: each "#overlay" flips the flag and emits exactly one line, which says
\* ON exactly if the flag is now true and OFF exactly if it is now false.
C8_OverlayLine ==
    [][WasCmd(Txt_overlay)' =>
          /\ SHOW_OVERLAY' = ~SHOW_OVERLAY
          /\ Len(calls') = 1
          /\ Len(LinesOf(calls')) = 1
          /\ LinesOf(calls')[1] = Txt_on <=> SHOW_OVERLAY'
          /\ LinesOf(calls')[1] = Txt_off <=> ~SHOW_OVERLAY']_vars

\* C8 witness: an "#overlay" switched the overlay off.
C8_Witness ==
    /\ WasCmd(Txt_overlay)
    /\ ~SHOW_OVERLAY
    /\ LinesOf(calls) = <<Txt_off>>

\* C9: counted from load, an amod_frame issues the full ten-call draw
\* sequence if and only if an odd number of "#overlay" commands has been
\* processed; otherwise it draws nothing.
C9_DrawsIffOddToggles ==
    last = "amod_frame" =>
        /\ FullDraw(calls) <=> Len(overlayHist) % 2 = 1
        /\ Len(overlayHist) % 2 = 0 => DrawingsOf(calls) = <<>>

\* C9 witness: a frame drew the full sequence after the third "#overlay".
C9_Witness ==
    /\ last = "amod_frame"
    /\ Len(overlayHist) = 3
    /\ FullDraw(calls)

\* C10: whenever amod_client_cmd returns 0 it has made no host call and has
\* left the flag and the counter as they were.
C10_NotConsumedNoEffect ==
    [][(last' = "amod_client_cmd" /\ ret' = 0) =>
          /\ calls' = <<>>
          /\ UNCHANGED <<SHOW_OVERLAY, FRAME_COUNT>>]_vars

\* C10 witness: undecodable bytes were refused while the overlay was visible.
C10_Witness ==
    /\ last = "amod_client_cmd"
    /\ ret = 0
    /\ ~arg.null
    /\ ~to_str(CStr_from_ptr(arg.mem)).ok
    /\ SHOW_OVERLAY
    /\ calls = <<>>

\* every text buffer among the calls
BufsOf(cs) == UNION { {cs[i].bufs[k] : k \in 1..Len(cs[i].bufs)} : i \in 1..Len(cs) }

\* the buffer ends with a NUL
EndsWithNul(mem) == Len(mem) > 0 /\ mem[Len(mem)] = 0

\* C11 as stated: every text buffer handed to note, addline or render_text
\* ends with a null terminator, in every callback and for every username.
\* (amod_gamestart hands note the bytes of a String, which has none.)
C11_AllTextTerminated ==
    \A b \in BufsOf(calls) : EndsWithNul(b)

\* the hooks that never consume input, and the tick
InputHooks ==
    {"amod_mouse_move", "amod_mouse_click", "amod_keydown", "amod_keyup",
     "amod_tick"}

\* C12: amod_mouse_click, amod_keydown and amod_keyup return 0 for every
\* argument and in every extension state; they, amod_mouse_move and amod_tick
\* make no host call and change neither the flag nor the counter.
C12_InputNeverConsumed ==
    [][last' \in InputHooks =>
          /\ ret' = 0
          /\ calls' = <<>>
          /\ UNCHANGED <<SHOW_OVERLAY, FRAME_COUNT>>]_vars

\* C12 witness: a key press went through unconsumed while the overlay was
\* visible and frames had been counted.
C12_Witness ==
    /\ last = "amod_keydown"
    /\ ret = 0
    /\ SHOW_OVERLAY
    /\ frames > 0

\* the host's game-state statics
GameStatics == {"hp", "mana", "gold", "experience", "value", "username"}

\* C13: game state is read only by amod_gamestart, by a visible amod_frame and
\* by "#stats"; amod_version, amod_init and amod_exit read none of it; so
\* along the documented call sequence every game-state read happens with the
\* game started and not yet shut down.
C13_GameStateReads ==
    /\ reads \cap GameStatics # {} =>
          \/ last = "amod_gamestart"
          \/ last = "amod_frame" /\ SHOW_OVERLAY
          \/ WasCmd(Txt_stats)
    /\ last \in {"amod_version", "amod_init", "amod_exit"} =>
          reads \cap GameStatics = {}
    /\ reads \cap GameStatics # {} => phase = "game"
    /\ phase \in {"load", "init", "exit"} => reads \cap GameStatics = {}

\* C13 witness: the host shut down after a game in which the overlay was
\* visible; the shutdown read nothing.
C13_Witness ==
    /\ last = "amod_exit"
    /\ phase = "exit"
    /\ SHOW_OVERLAY
    /\ frames > 0
    /\ reads = {}

\* C14: the flag changes only in an "#overlay" command and the counter only
\* in amod_frame; amod_frame leaves the flag, "#overlay" leaves the counter,
\* and every other callback leaves both.
C14_Writers ==
    [][/\ SHOW_OVERLAY' # SHOW_OVERLAY => WasCmd(Txt_overlay)'
       /\ FRAME_COUNT' # FRAME_COUNT => last' = "amod_frame"
       /\ last' = "amod_frame" => SHOW_OVERLAY' = SHOW_OVERLAY
       /\ WasCmd(Txt_overlay)' => FRAME_COUNT' = FRAME_COUNT
       /\ (last' # "amod_frame" /\ ~WasCmd(Txt_overlay)') =>
              UNCHANGED <<SHOW_OVERLAY, FRAME_COUNT>>]_vars

\* C14 witness: amod_gamestart ran with the overlay visible and the counter
\* advanced, and left both.
C14_Witness ==
    /\ last = "amod_gamestart"
    /\ SHOW_OVERLAY
    /\ frames = 2
    /\ FRAME_COUNT = <<0, 2>>

RECURSIVE Advance(_, _)
\* the 32-bit value c counted up n times
Advance(c, n) == IF n = 0 THEN c ELSE Advance(Succ32(c), n - 1)

\* C15: in every visible frame the stat texts show the values current in
\* that callback: HP shows hp and slot-0 max HP, Mana shows mana and slot-0
\* max mana, Gold shows gold, and the Frame line shows the counter after this
\* frame's increment, which is the number of amod_frame calls since load
\* modulo 2^32, hidden frames included.
C15_FreshValues ==
    (last = "amod_frame" /\ SHOW_OVERLAY) =>
        LET d == DrawingsOf(calls)
        IN  /\ Len(d) = 10
            /\ TextOf(d[7].bufs[1]) =
                  Txt_HP \o DecInt(hp) \o <<32, 47, 32>> \o DecInt(value[0][0])
            /\ TextOf(d[8].bufs[1]) =
                  Txt_Mana \o DecInt(mana) \o <<32, 47, 32>> \o DecInt(value[0][2])
            /\ TextOf(d[9].bufs[1]) = Txt_Gold \o DecInt(gold)
            /\ TextOf(d[10].bufs[1]) = Txt_Frame \o DecU32(FRAME_COUNT)
            /\ FRAME_COUNT = Advance(origin.count, frames)

\* C15 witness: the third frame explored, drawn after frames that ran hidden
\* had carried the counter into the high limb, on the third host snapshot.
C15_Witness ==
    /\ last = "amod_frame"
    /\ SHOW_OVERLAY
    /\ frames = 3
    /\ origin.count = <<0, LIMB - 1>>
    /\ hp = 7
    /\ Len(DrawingsOf(calls)) = 10

\* C16: the "#stats" lines are computed from the host values at the time of
\* the call: level line from exp2level(experience) and experience, HP/Mana
\* line from hp, slot-0 max HP, mana, slot-0 max mana, attribute line from
\* slot-0 Strength, Agility, Intelligence, Wisdom in that order, gold line
\* from gold.
C16_StatsCurrent ==
    WasCmd(Txt_stats) =>
        LET ls == LinesOf(calls)
            lv == calls[1]
        IN  /\ Len(ls) = 5
            /\ lv.fn = "exp2level"
            /\ lv.ints = <<experience>>
            /\ ls[2] = Txt_Level \o DecInt(lv.ret)
                          \o <<32, 32, 69, 120, 112, 101, 114, 105, 101, 110,
                               99, 101, 58, 32>> \o DecInt(experience)
            /\ ls[3] = Txt_HP \o DecInt(hp) \o <<47>> \o DecInt(value[0][0])
                          \o <<32, 32>> \o Txt_Mana \o DecInt(mana) \o <<47>>
                          \o DecInt(value[0][2])
            /\ ls[4] = Txt_STR \o DecInt(value[0][6])
                          \o <<32, 32, 65, 71, 73, 58, 32>> \o DecInt(value[0][5])
                          \o <<32, 32, 73, 78, 84, 58, 32>> \o DecInt(value[0][4])
                          \o <<32, 32, 87, 73, 83, 58, 32>> \o DecInt(value[0][3])
            /\ ls[5] = Txt_Gold \o DecInt(gold)

\* C16 witness: "#stats" ran on the third host snapshot, with the host
\* answering level 5, after frames had been counted.
C16_Witness ==
    /\ WasCmd(Txt_stats)
    /\ hp = 7
    /\ experience = 12345
    /\ calls[1].ret = 5
    /\ frames > 0

\* C17: a visible frame queries dotx and doty itself and, with (ax, ay) the
\* answers, fills the rectangle (ax+10, ay+10)-(ax+190, ay+90), draws its
\* top, bottom, left and right edges in that order, and puts the five texts
\* at x = ax+14, at 4, 20, 34, 48 and 62 below the panel top.
C17_Geometry ==
    (last = "amod_frame" /\ SHOW_OVERLAY) =>
        LET d  == DrawingsOf(calls)
            ax == calls[1].ret
            ay == calls[2].ret
            x1 == ax + 10
            y1 == ay + 10
            x2 == ax + 190
            y2 == ay + 90
            Coord(c) == SubSeq(c.ints, 1, 4)
            At(c) == SubSeq(c.ints, 1, 2)
        IN  /\ Len(calls) = 12 /\ Len(d) = 10
            /\ calls[1].fn = "dotx" /\ calls[1].ints = <<0>>
            /\ calls[2].fn = "doty" /\ calls[2].ints = <<0>>
            /\ Coord(d[1]) = <<x1, y1, x2, y2>>
            /\ Coord(d[2]) = <<x1, y1, x2, y1>>
            /\ Coord(d[3]) = <<x1, y2, x2, y2>>
            /\ Coord(d[4]) = <<x1, y1, x1, y2>>
            /\ Coord(d[5]) = <<x2, y1, x2, y2>>
            /\ At(d[6]) = <<ax + 14, y1 + 4>>
            /\ At(d[7]) = <<ax + 14, y1 + 20>>
            /\ At(d[8]) = <<ax + 14, y1 + 34>>
            /\ At(d[9]) = <<ax + 14, y1 + 48>>
            /\ At(d[10]) = <<ax + 14, y1 + 62>>

\* C17 witness: a second visible frame in a row got the anchor (40, 300).
C17_Witness ==
    /\ last = "amod_frame"
    /\ SHOW_OVERLAY
    /\ frames >= 2
    /\ Len(calls) = 12
    /\ calls[1].ret = 40
    /\ calls[2].ret = 300

\* a call without the value the host returned from it
NoRet(c) == [fn |-> c.fn, ints |-> c.ints, bufs |-> c.bufs]
NoRets(cs) == [i \in 1..Len(cs) |-> NoRet(cs[i])]

\* C18: whatever note and render_text return, a callback makes the same host
\* calls, returns the same value and leaves the same extension state as when
\* they all return 0: no retry, no early exit, no error state.
C18_StatusIgnored ==
    [][/\ last' = "amod_frame" =>
            LET ax == IF calls' = <<>> THEN 0 ELSE calls'[1].ret
                ay == IF calls' = <<>> THEN 0 ELSE calls'[2].ret
            IN  /\ NoRets(calls') =
                      NoRets(FrameCalls(SHOW_OVERLAY, Succ32(FRAME_COUNT), ax, ay,
                                        <<0, 0, 0, 0, 0>>))
                /\ ret' = 0
                /\ SHOW_OVERLAY' = SHOW_OVERLAY
                /\ FRAME_COUNT' = Succ32(FRAME_COUNT)
       /\ last' = "amod_init" =>
            /\ NoRets(calls') = << NoRet(Call("note", <<>>, <<init_text>>, 0)) >>
            /\ ret' = 0
            /\ UNCHANGED <<SHOW_OVERLAY, FRAME_COUNT>>
       /\ last' = "amod_exit" =>
            /\ NoRets(calls') = << NoRet(Call("note", <<>>, <<exit_text>>, 0)) >>
            /\ ret' = 0
            /\ UNCHANGED <<SHOW_OVERLAY, FRAME_COUNT>>
       /\ last' = "amod_gamestart" =>
            /\ Len(calls') = 2
            /\ FnNames(calls') = <<"note", "addline">>
            /\ calls'[1].bufs[1] = gamestart_fmt
            /\ calls'[2].bufs = <<loaded_text>>
            /\ ret' = 0
            /\ UNCHANGED <<SHOW_OVERLAY, FRAME_COUNT>>]_vars

\* C18 witness: note reported a failure to amod_init, which made its one call
\* and returned.
C18_Witness ==
    /\ last = "amod_init"
    /\ Len(calls) = 1
    /\ calls[1].ret < 0
    /\ SHOW_OVERLAY

\* no callback is in flight
Quiescent == \A t \in Threads : thr[t].pc \in {"idle", "done"}

\* the threads that ran the given callback
Ran(task) == {t \in Threads : thr[t].task = task}

\* C19: under concurrent calls the counter loses no increment: once the n
\* amod_frame calls in flight have returned, however their steps interleaved
\* with each other and with "#overlay" commands, the counter is its initial
\* value plus n modulo 2^32.
C19_NoLostIncrement ==
    Quiescent => FRAME_COUNT = Advance(origin.count, Cardinality(Ran("frame")))

\* C19 witness: two frames and an "#overlay" ran concurrently from the
\* maximum count, and one frame drew a count that was not its own increment.
C19_Witness ==
    /\ Quiescent
    /\ Cardinality(Ran("frame")) = 2
    /\ Cardinality(Ran("overlay")) = 1
    /\ origin.count = <<LIMB - 1, LIMB - 1>>
    /\ FRAME_COUNT = <<0, 1>>
    /\ \A t \in Ran("frame") :
          /\ Len(thr[t].calls) = 12
          /\ TextOf(thr[t].calls[12].bufs[1]) = Txt_Frame \o <<49>>

\* the confirmation lines the "#overlay" threads emitted, by thread
ToggleLine(t) == LinesOf(thr[t].calls)[1]

\* exactly two "#overlay" commands ran, and both have returned
TwoToggles == Quiescent /\ Cardinality(Ran("overlay")) = 2

\* C20 as stated: under concurrent calls, after two "#overlay" commands whose
\* load and store steps interleave in any way the flag has its original
\* value and the two lines are one ON and one OFF.
C20_ToggleExclusive ==
    TwoToggles =>
        /\ SHOW_OVERLAY = origin.show
        /\ {ToggleLine(t) : t \in Ran("overlay")} = {Txt_on, Txt_off}

\* C20 as amended: the two toggles are exclusive exactly when they do not
\* overlap.  If one stores before the other loads, the flag returns to its
\* original value and the lines are one ON and one OFF; if both load before
\* either stores, one toggle is lost: the flag ends inverted and both lines
\* say the same, the inverted state.
C20_ToggleExclusiveIfSerial ==
    TwoToggles =>
        IF \A t \in Ran("overlay") : ~thr[t].raced
        THEN /\ SHOW_OVERLAY = origin.show
             /\ {ToggleLine(t) : t \in Ran("overlay")} = {Txt_on, Txt_off}
        ELSE /\ SHOW_OVERLAY = ~origin.show
             /\ {ToggleLine(t) : t \in Ran("overlay")} =
                   { IF origin.show THEN Txt_off ELSE Txt_on }

\* C20 witness: two "#overlay" commands ran one after the other while a frame
\* ran on a third thread, starting from Visible.
C20_Witness ==
    /\ TwoToggles
    /\ \A t \in Ran("overlay") : ~thr[t].raced
    /\ Cardinality(Ran("frame")) = 1
    /\ origin.show
    /\ SHOW_OVERLAY

====
